---- MODULE Spec2Model ----
(***************************************************************************)
(* Model of the in-memory B-tree of src/main.rs (struct Node, struct       *)
(* BTree).  A node is a record [leaf, count, keys, children]; `count` is   *)
(* the stored field of the Rust struct and is NOT derived from Len(keys):  *)
(* the code updates the two independently.  Vectors are sequences and are  *)
(* addressed with the 0-based indices of the source (At, InsertAt, ...).   *)
(*                                                                         *)
(* Every Rust operation that can abort (index out of range, Vec::remove /  *)
(* Vec::insert / split_off out of range, unwrap of None, usize             *)
(* subtraction below zero, panic!) is modelled by a result record whose    *)
(* field `panic` is TRUE.  `0usize - 1` aborts in a debug build and wraps  *)
(* to usize::MAX in a release build; at both places where it can happen    *)
(* (main.rs:157, main.rs:231) the wrapped value is used at once as a Vec   *)
(* index, so both builds abort and the model has the single outcome panic. *)
(***************************************************************************)
EXTENDS Integers, Sequences, FiniteSets, TLC

\* ---------------------------------------------------------------- bounds
MaxT == 3
MaxKey == 2
MaxInserts == 9
MaxInsertsMixed == 5
MaxDeletes == 2

Keys == 0..MaxKey

VARIABLES t, root, aborted, ins, nDel, held, last

vars == <<t, root, aborted, ins, nDel, held, last>>

\* ------------------------------------------------- Vec<T> with 0-based indices
At(s, i) == s[i + 1]

InsertAt(s, i, x) == SubSeq(s, 1, i) \o <<x>> \o SubSeq(s, i + 1, Len(s))

RemoveAt(s, i) == SubSeq(s, 1, i) \o SubSeq(s, i + 2, Len(s))

SetAt(s, i, x) == [s EXCEPT ![i + 1] = x]

Swap(s, a, b) == [s EXCEPT ![a + 1] = s[b + 1], ![b + 1] = s[a + 1]]

\* ------------------------------------------------------------------ results
\* any fatal abort other than the panic! of merge (main.rs:220)
Panic == [panic |-> TRUE, unable |-> FALSE]

\* panic!("Unable to merge index: {}", target)
UnableToMerge == [panic |-> TRUE, unable |-> TRUE]

Ok(n) == [panic |-> FALSE, node |-> n]

OkRet(n, r) == [panic |-> FALSE, node |-> n, ret |-> r]

\* ------------------------------------------------------------ constructors
LeafNode == [leaf |-> TRUE, count |-> 0, keys |-> <<>>, children |-> <<>>]

\* ------------------------------------------------------------------ to_vec
RECURSIVE to_vec(_)
RECURSIVE to_vec_loop(_, _, _)

\* the body of `for i in 0..=self.count`, with acc the vector built so far
to_vec_loop(n, i, acc) ==
  IF i > n.count THEN [panic |-> FALSE, seq |-> acc]
  ELSE IF i >= Len(n.children) THEN Panic
  ELSE LET c == to_vec(At(n.children, i)) IN
    IF c.panic THEN Panic
    ELSE IF i # n.count
      THEN IF i >= Len(n.keys) THEN Panic
           ELSE to_vec_loop(n, i + 1, (acc \o c.seq) \o <<At(n.keys, i)>>)
      ELSE to_vec_loop(n, i + 1, acc \o c.seq)

to_vec(n) ==
  IF n.leaf THEN [panic |-> FALSE, seq |-> n.keys]
  ELSE to_vec_loop(n, 0, <<>>)

\* ---------------------------------------------------------------- contains
RECURSIVE contains_scan(_, _, _)
RECURSIVE contains_scan_strict(_, _, _)
RECURSIVE contains(_, _)

\* the scan with `>` in place of `>=`
contains_scan_strict(n, value, i) ==
  IF i < n.count
    THEN IF i >= Len(n.keys) THEN -1
         ELSE IF At(n.keys, i) > value THEN i
         ELSE contains_scan_strict(n, value, i + 1)
    ELSE i

\* the while loop of contains; -1 stands for the abort of keys[i]
contains_scan(n, value, i) ==
  IF i < n.count
    THEN IF i >= Len(n.keys) THEN -1
         ELSE IF At(n.keys, i) >= value THEN i
         ELSE contains_scan(n, value, i + 1)
    ELSE i

contains(n, value) ==
  LET i == contains_scan(n, value, 0) IN
  IF i = -1 THEN Panic
  ELSE IF n.leaf
    THEN IF i = n.count THEN [panic |-> FALSE, ret |-> FALSE]
         ELSE [panic |-> FALSE, ret |-> (At(n.keys, i) = value)]
  ELSE IF i = n.count
    THEN IF i >= Len(n.children) THEN Panic
         ELSE contains(At(n.children, i), value)
  ELSE IF value = At(n.keys, i) THEN [panic |-> FALSE, ret |-> TRUE]
  ELSE IF i >= Len(n.children) THEN Panic
  ELSE contains(At(n.children, i), value)

\* ------------------------------------------------------------------- split
\* split that copies the median up without popping it from the left half
split_keeps_median(n, i) ==
  IF i >= Len(n.children) THEN Panic
  ELSE LET left == At(n.children, i) IN
    IF t > Len(left.keys) THEN Panic
    ELSE IF ~left.leaf /\ t > Len(left.children) THEN Panic
    ELSE IF i > Len(n.keys) THEN Panic
    ELSE
      LET right == [leaf |-> left.leaf,
                    count |-> t - 1,
                    keys |-> SubSeq(left.keys, t + 1, Len(left.keys)),
                    children |-> IF left.leaf THEN <<>>
                                 ELSE SubSeq(left.children, t + 1, Len(left.children))]
          left2 == [leaf |-> left.leaf,
                    count |-> t - 1,
                    keys |-> SubSeq(left.keys, 1, t),
                    children |-> IF left.leaf THEN left.children
                                 ELSE SubSeq(left.children, 1, t)]
          median == At(left.keys, t - 1)
      IN Ok([leaf |-> n.leaf,
             count |-> n.count + 1,
             keys |-> InsertAt(n.keys, i, median),
             children |-> InsertAt(SetAt(n.children, i, left2), i + 1, right)])

\* split without the `if !left.leaf` block: the children stay in the left half
split_leaves_children(n, i) ==
  IF i >= Len(n.children) THEN Panic
  ELSE LET left == At(n.children, i) IN
    IF t > Len(left.keys) THEN Panic
    ELSE IF i > Len(n.keys) THEN Panic
    ELSE
      LET right == [leaf |-> left.leaf,
                    count |-> t - 1,
                    keys |-> SubSeq(left.keys, t + 1, Len(left.keys)),
                    children |-> <<>>]
          left2 == [leaf |-> left.leaf,
                    count |-> t - 1,
                    keys |-> SubSeq(left.keys, 1, t - 1),
                    children |-> left.children]
          median == At(left.keys, t - 1)
      IN Ok([leaf |-> n.leaf,
             count |-> n.count + 1,
             keys |-> InsertAt(n.keys, i, median),
             children |-> InsertAt(SetAt(n.children, i, left2), i + 1, right)])

split(n, i) ==
  IF i >= Len(n.children) THEN Panic
  ELSE LET left == At(n.children, i) IN
    IF t > Len(left.keys) THEN Panic                    \* keys.split_off(t)
    ELSE IF ~left.leaf /\ t > Len(left.children) THEN Panic
    ELSE IF i > Len(n.keys) THEN Panic                  \* self.keys.insert(i, _)
    ELSE
      LET right == [leaf |-> left.leaf,
                    count |-> t - 1,
                    keys |-> SubSeq(left.keys, t + 1, Len(left.keys)),
                    children |-> IF left.leaf THEN <<>>
                                 ELSE SubSeq(left.children, t + 1, Len(left.children))]
          left2 == [leaf |-> left.leaf,
                    count |-> t - 1,
                    keys |-> SubSeq(left.keys, 1, t - 1),
                    children |-> IF left.leaf THEN left.children
                                 ELSE SubSeq(left.children, 1, t)]
          median == At(left.keys, t - 1)
      IN Ok([leaf |-> n.leaf,
             count |-> n.count + 1,
             keys |-> InsertAt(n.keys, i, median),
             children |-> InsertAt(SetAt(n.children, i, left2), i + 1, right)])

\* ---------------------------------------------------------- insert_nonfull
RECURSIVE bubble(_, _, _)
RECURSIVE scan_right(_, _, _)
RECURSIVE insert_nonfull(_, _)

\* bubble with `if` in place of `while`: at most one swap
bubble_once(keys, value, i) ==
  IF i >= 1
    THEN IF i - 1 >= Len(keys) THEN Panic
         ELSE IF value < At(keys, i - 1)
           THEN IF i >= Len(keys) THEN Panic
                ELSE [panic |-> FALSE, keys |-> Swap(keys, i, i - 1)]
         ELSE [panic |-> FALSE, keys |-> keys]
    ELSE [panic |-> FALSE, keys |-> keys]

\* while i >= 1 && value < keys[i - 1] { keys.swap(i, i - 1); i -= 1 }
bubble(keys, value, i) ==
  IF i >= 1
    THEN IF i - 1 >= Len(keys) THEN Panic
         ELSE IF value < At(keys, i - 1)
           THEN IF i >= Len(keys) THEN Panic
                ELSE bubble(Swap(keys, i, i - 1), value, i - 1)
         ELSE [panic |-> FALSE, keys |-> keys]
    ELSE [panic |-> FALSE, keys |-> keys]

\* while i > 0 && keys[i] >= value { i -= 1 }; -1 stands for the abort
scan_right(keys, value, i) ==
  IF i > 0
    THEN IF i >= Len(keys) THEN -1
         ELSE IF At(keys, i) >= value THEN scan_right(keys, value, i - 1)
         ELSE i
    ELSE i

is_full(n, index) == At(n.children, index).count = 2 * t - 1

insert_nonfull(n, value) ==
  IF n.leaf
    THEN LET b == bubble(Append(n.keys, value), value, n.count) IN
      IF b.panic THEN Panic
      ELSE Ok([n EXCEPT !.keys = b.keys, !.count = n.count + 1])
  ELSE IF n.count = 0 THEN Panic                        \* self.count - 1
  ELSE LET i0 == scan_right(n.keys, value, n.count - 1) IN
    IF i0 = -1 \/ i0 >= Len(n.keys) THEN Panic
    ELSE LET i1 == IF At(n.keys, i0) < value THEN i0 + 1 ELSE i0 IN
      IF i1 >= Len(n.children) THEN Panic
      ELSE IF is_full(n, i1)
        THEN LET s == split(n, i1) IN
          IF s.panic THEN Panic
          ELSE LET i2 == IF value > At(s.node.keys, i1) THEN i1 + 1 ELSE i1
                   c == insert_nonfull(At(s.node.children, i2), value)
               IN IF c.panic THEN Panic
                  ELSE Ok([s.node EXCEPT !.children = SetAt(s.node.children, i2, c.node)])
        ELSE LET c == insert_nonfull(At(n.children, i1), value) IN
          IF c.panic THEN Panic
          ELSE Ok([n EXCEPT !.children = SetAt(n.children, i1, c.node)])

\* ------------------------------------------------------------ BTree::insert
BTree_insert(r, value) ==
  IF r.count # 2 * t - 1 THEN insert_nonfull(r, value)
  ELSE LET new_root == [leaf |-> FALSE, count |-> 0, keys |-> <<>>, children |-> <<r>>]
           s == split(new_root, 0)
       IN IF s.panic THEN Panic ELSE insert_nonfull(s.node, value)

\* --------------------------------------------------------------- remove_key
RECURSIVE position(_, _, _)

\* keys.iter().position(|e| *e == key), from index i on; -1 stands for None
position(keys, key, i) ==
  IF i >= Len(keys) THEN -1
  ELSE IF At(keys, i) = key THEN i
  ELSE position(keys, key, i + 1)

remove_key(n, key) ==
  LET index == position(n.keys, key, 0) IN
  IF index = -1 THEN OkRet(n, FALSE)
  ELSE OkRet([n EXCEPT !.keys = RemoveAt(n.keys, index)], TRUE)

\* ----------------------------------------------------------------- siblings
None == -1

\* siblings without the `if index == 0` branch: the absent slot always goes last
siblings_pads_right(children, index) ==
  LET result == SelectSeq([j \in 1..Len(children) |-> j - 1],
                          LAMBDA j : j = index \/ j + 1 = index \/ j = index + 1)
  IN IF Len(result) = 3 THEN result
     ELSE Append(result, None)

\* The returned vector of Option<&mut Box<Node>>: each slot is the index of
\* the child it refers to, or None.
siblings(children, index) ==
  LET result == SelectSeq([j \in 1..Len(children) |-> j - 1],
                          LAMBDA j : j = index \/ j + 1 = index \/ j = index + 1)
  IN IF Len(result) = 3 THEN result
     ELSE IF index = 0 THEN <<None>> \o result
     ELSE Append(result, None)

\* -------------------------------------------------------------------- merge
\* merge that never looks at the left sibling
merge_right_only(children, target, delimeter_value) ==
  LET sib == siblings(children, target) IN
  IF Len(sib) < 2 THEN Panic
  ELSE IF At(sib, 1) = None THEN Panic
  ELSE
    LET target_leaf == At(children, At(sib, 1))
        rest == RemoveAt(sib, 1)
    IN IF Len(rest) < 2 THEN Panic
       ELSE IF At(rest, 1) # None
         THEN LET right == At(children, At(rest, 1))
                  target2 == [target_leaf EXCEPT !.keys =
                                Append(target_leaf.keys, delimeter_value) \o right.keys]
              IN [panic |-> FALSE,
                  children |-> RemoveAt(SetAt(children, At(sib, 1), target2), target + 1),
                  index |-> target]
       ELSE UnableToMerge

merge(children, target, delimeter_value) ==
  LET sib == siblings(children, target) IN
  IF Len(sib) < 2 THEN Panic                            \* siblings.remove(1)
  ELSE IF At(sib, 1) = None THEN Panic                  \* .unwrap()
  ELSE
    LET target_leaf == At(children, At(sib, 1))
        rest == RemoveAt(sib, 1)
    IN IF At(rest, 0) # None
         THEN LET left == At(children, At(rest, 0))
                  left2 == [left EXCEPT !.keys =
                              Append(left.keys, delimeter_value) \o target_leaf.keys]
              IN [panic |-> FALSE,
                  children |-> RemoveAt(SetAt(children, At(rest, 0), left2), target),
                  index |-> target - 1]
       ELSE IF Len(rest) < 2 THEN Panic                 \* siblings[1]
       ELSE IF At(rest, 1) # None
         THEN LET right == At(children, At(rest, 1))
                  target2 == [target_leaf EXCEPT !.keys =
                                Append(target_leaf.keys, delimeter_value) \o right.keys]
              IN [panic |-> FALSE,
                  children |-> RemoveAt(SetAt(children, At(sib, 1), target2), target + 1),
                  index |-> target]
       ELSE UnableToMerge

\* --------------------------------------------------------- delete_from_leaf
delete_from_leaf(n, value, i) ==
  LET sib == siblings(n.children, i) IN
  IF Len(sib) < 2 THEN Panic                            \* siblings.remove(1)
  ELSE IF At(sib, 1) = None THEN Panic                  \* .unwrap()
  ELSE
    LET target_leaf == At(n.children, At(sib, 1))
        rest == RemoveAt(sib, 1)
        \* lines 307-314: merge, then remove the value from the merged node
        by_merge ==
          IF i >= Len(n.keys) THEN Panic                \* self.keys[i]
          ELSE LET m == merge(n.children, i, At(n.keys, i)) IN
            IF m.panic THEN m
            ELSE IF m.index >= Len(m.children) THEN Panic
            ELSE LET r == remove_key(At(m.children, m.index), value) IN
              OkRet([n EXCEPT !.children = SetAt(m.children, m.index, r.node)], r.ret)
        \* lines 293-305: borrow from the right sibling
        from_right ==
          IF Len(rest) < 2 THEN Panic                   \* siblings[1]
          ELSE IF At(rest, 1) # None /\ At(n.children, At(rest, 1)).count >= t
            THEN LET right == At(n.children, At(rest, 1)) IN
              IF Len(right.keys) = 0 THEN Panic         \* right.keys.remove(0)
              ELSE IF i >= Len(n.keys) THEN Panic       \* self.keys.remove(i)
              ELSE
                LET min_value == At(right.keys, 0)
                    delimeter_value == At(n.keys, i)
                    right2 == [right EXCEPT !.keys = RemoveAt(right.keys, 0)]
                    target2 == [target_leaf EXCEPT !.keys =
                                  InsertAt(target_leaf.keys, 0, delimeter_value)]
                IN OkRet([n EXCEPT
                            !.keys = InsertAt(RemoveAt(n.keys, i), i, min_value),
                            !.children = SetAt(SetAt(n.children, At(rest, 1), right2),
                                               At(sib, 1), target2)],
                         TRUE)
          ELSE by_merge
    IN
    IF target_leaf.count >= t
      THEN LET r == remove_key(target_leaf, value) IN
        OkRet([n EXCEPT !.children = SetAt(n.children, At(sib, 1), r.node)], r.ret)
    ELSE IF At(rest, 0) # None /\ At(n.children, At(rest, 0)).count >= t
      \* lines 279-291: borrow from the left sibling
      THEN LET left == At(n.children, At(rest, 0)) IN
        IF Len(left.keys) = 0 THEN Panic                \* left.keys.pop().unwrap()
        ELSE IF i >= Len(n.keys) THEN Panic             \* self.keys.remove(i)
        ELSE
          LET max_value == At(left.keys, Len(left.keys) - 1)
              delimeter_value == At(n.keys, i)
              left2 == [left EXCEPT !.keys = SubSeq(left.keys, 1, Len(left.keys) - 1)]
              target2 == [target_leaf EXCEPT !.keys =
                            InsertAt(target_leaf.keys, 0, delimeter_value)]
          IN OkRet([n EXCEPT
                      !.keys = InsertAt(RemoveAt(n.keys, i), i, max_value),
                      !.children = SetAt(SetAt(n.children, At(rest, 0), left2),
                                         At(sib, 1), target2)],
                   TRUE)
    ELSE from_right

\* ------------------------------------------------------------- Node::delete
RECURSIVE delete_scan(_, _, _)
RECURSIVE delete(_, _)

\* while i < self.count && value > self.keys[i] { i += 1 }; -1 is the abort
delete_scan(n, value, i) ==
  IF i < n.count
    THEN IF i >= Len(n.keys) THEN -1
         ELSE IF value > At(n.keys, i) THEN delete_scan(n, value, i + 1)
         ELSE i
    ELSE i

delete(n, value) ==
  LET i == delete_scan(n, value, 0) IN
  IF i = -1 THEN Panic
  ELSE IF i = n.count \/ At(n.keys, i) # value
    THEN \* lines 230-245: the value is not a key of this node
      IF i = 0 \/ i - 1 >= Len(n.keys) THEN Panic       \* self.keys[i - 1]
      ELSE IF i >= Len(n.children) THEN Panic           \* self.children[i]
      ELSE
        LET max_value == At(n.keys, i - 1)
            target_leaf == At(n.children, i)
        IN IF target_leaf.leaf THEN delete_from_leaf(n, value, i)
           ELSE LET d == delete(target_leaf, value) IN
             IF d.panic THEN d
             ELSE LET n2 == [n EXCEPT !.children = SetAt(n.children, i, d.node)] IN
               IF d.node.count < t
                 THEN LET m == merge(n2.children, i, max_value) IN
                   IF m.panic THEN m
                   ELSE OkRet([n2 EXCEPT !.children = m.children], d.ret)
               ELSE OkRet(n2, d.ret)
  ELSE \* lines 247-263: the value is the key at position i
    IF i + 1 >= Len(n.children) THEN Panic              \* self.children[i + 1]
    ELSE LET moved_to_node == At(n.children, i + 1) IN
      IF Len(moved_to_node.keys) = 0 THEN Panic         \* keys.remove(0)
      ELSE
        LET moved2 == [moved_to_node EXCEPT !.keys =
                         InsertAt(RemoveAt(moved_to_node.keys, 0), 0, value)]
            n1 == [n EXCEPT !.keys = SetAt(n.keys, i, At(moved_to_node.keys, 0)),
                            !.children = SetAt(n.children, i + 1, moved2)]
        IN IF moved2.leaf THEN delete_from_leaf(n1, value, i + 1)
           ELSE LET d == delete(moved2, value) IN
             IF d.panic THEN d
             ELSE LET n2 == [n1 EXCEPT !.children = SetAt(n1.children, i + 1, d.node)]
                      delimeter_value == At(n2.keys, i)
                  IN IF d.node.count < t
                       THEN LET m == merge(n2.children, i, delimeter_value) IN
                         IF m.panic THEN m
                         ELSE OkRet([n2 EXCEPT !.children = m.children], d.ret)
                     ELSE OkRet(n2, d.ret)

\* ------------------------------------------------------------ BTree::delete
BTree_delete(r, value) ==
  IF r.leaf THEN remove_key(r, value) ELSE delete(r, value)

\* ------------------------------------------------------------ BTree::to_vec
BTree_to_vec(r) == to_vec(r)

\* ---------------------------------------------------------- BTree::contains
BTree_contains(r, value) == contains(r, value)

\* ------------------------------------------------------------- ghost helpers
RECURSIVE SortedInsert(_, _)

\* the ascending sequence s with one more occurrence of v
SortedInsert(s, v) ==
  IF s = <<>> THEN <<v>>
  ELSE IF v <= Head(s) THEN <<v>> \o s
  ELSE <<Head(s)>> \o SortedInsert(Tail(s), v)

\* every node of the subtree of n
RECURSIVE Nodes(_)

Nodes(n) == {n} \cup UNION {Nodes(n.children[j]) : j \in 1..Len(n.children)}

\* ------------------------------------------------------------ state machine
\* t, root : the fields of BTree
\* aborted : the process has reached a fatal abort (no operation follows)
\* ins     : ghost, the values passed to insert so far, ascending
\* nDel    : ghost, the number of delete calls so far
\* held    : ghost, the values inserted and not since deleted with result true
\* last    : ghost, the last public call: its name, argument, boolean result,
\*           sequence result, the root before the call, and whether the call
\*           ended in the panic! of merge
Init ==
  /\ t \in 2..MaxT
  /\ root = LeafNode
  /\ aborted = FALSE
  /\ ins = <<>>
  /\ nDel = 0
  /\ held = {}
  /\ last = [op |-> "new", v |-> 0, ret |-> FALSE, seq |-> <<>>, pre |-> LeafNode,
             unable |-> FALSE]

Insert(v) ==
  /\ ~aborted
  /\ Len(ins) < (IF nDel = 0 THEN MaxInserts ELSE MaxInsertsMixed)
  /\ LET r == BTree_insert(root, v) IN
       /\ aborted' = r.panic
       /\ root' = IF r.panic THEN root ELSE r.node
       /\ held' = IF r.panic THEN held ELSE held \cup {v}
  /\ ins' = SortedInsert(ins, v)
  /\ last' = [op |-> "insert", v |-> v, ret |-> FALSE, seq |-> <<>>, pre |-> root,
              unable |-> FALSE]
  /\ UNCHANGED <<t, nDel>>

Delete(v) ==
  /\ ~aborted
  /\ nDel < MaxDeletes
  /\ LET r == BTree_delete(root, v) IN
       /\ aborted' = r.panic
       /\ root' = IF r.panic THEN root ELSE r.node
       /\ held' = IF ~r.panic /\ r.ret THEN held \ {v} ELSE held
       /\ last' = [op |-> "delete", v |-> v,
                   ret |-> IF r.panic THEN FALSE ELSE r.ret,
                   seq |-> <<>>, pre |-> root,
                   unable |-> r.panic /\ r.unable]
  /\ nDel' = nDel + 1
  /\ UNCHANGED <<t, ins>>

Contains(v) ==
  /\ ~aborted
  /\ LET r == BTree_contains(root, v) IN
       /\ aborted' = r.panic
       /\ last' = [op |-> "contains", v |-> v,
                   ret |-> IF r.panic THEN FALSE ELSE r.ret,
                   seq |-> <<>>, pre |-> root, unable |-> FALSE]
  /\ UNCHANGED <<t, root, ins, nDel, held>>

ToSequence ==
  /\ ~aborted
  /\ LET r == BTree_to_vec(root) IN
       /\ aborted' = r.panic
       /\ last' = [op |-> "to_vec", v |-> 0, ret |-> FALSE,
                   seq |-> IF r.panic THEN <<>> ELSE r.seq, pre |-> root,
                   unable |-> FALSE]
  /\ UNCHANGED <<t, root, ins, nDel, held>>

Next ==
  \/ \E v \in Keys : Insert(v)
  \/ \E v \in Keys : Delete(v)
  \/ \E v \in Keys : Contains(v)
  \/ ToSequence

Spec == Init /\ [][Next]_vars

\* the callers that never delete
NextInsertOnly ==
  \/ \E v \in Keys : Insert(v)
  \/ \E v \in Keys : Contains(v)
  \/ ToSequence

SpecInsertOnly == Init /\ [][NextInsertOnly]_vars

\* the callers that never insert a value the tree already stores
InsertFresh(v) ==
  /\ \A m \in Nodes(root) : v \notin {m.keys[j] : j \in 1..Len(m.keys)}
  /\ Insert(v)

NextDistinct ==
  \/ \E v \in Keys : InsertFresh(v)
  \/ \E v \in Keys : Delete(v)
  \/ \E v \in Keys : Contains(v)
  \/ ToSequence

SpecDistinct == Init /\ [][NextDistinct]_vars

\* the callers that only mutate: every interleaving of insert and delete
NextMutators ==
  \/ \E v \in Keys : Insert(v)
  \/ \E v \in Keys : Delete(v)

SpecMutators == Init /\ [][NextMutators]_vars

TypeOK ==
  /\ t \in 2..MaxT
  /\ aborted \in BOOLEAN
  /\ nDel \in 0..MaxDeletes
  /\ Len(ins) <= MaxInserts
  /\ held \subseteq Keys

\* ------------------------------------------------- vocabulary of the claims
Range(s) == {s[j] : j \in 1..Len(s)}

IsSorted(s) == \A j \in 1..(Len(s) - 1) : s[j] <= s[j + 1]

RECURSIVE RemoveOne(_, _)

\* s without its first occurrence of v
RemoveOne(s, v) ==
  IF s = <<>> THEN <<>>
  ELSE IF Head(s) = v THEN Tail(s)
  ELSE <<Head(s)>> \o RemoveOne(Tail(s), v)

RECURSIVE AllKeys(_)
RECURSIVE AllKeysOf(_, _)

\* every key stored anywhere in the subtree of n, read from the vectors
AllKeysOf(cs, j) == IF j > Len(cs) THEN <<>> ELSE AllKeys(cs[j]) \o AllKeysOf(cs, j + 1)

AllKeys(n) == n.keys \o AllKeysOf(n.children, 1)

Occ(n, v) == Cardinality({j \in 1..Len(AllKeys(n)) : AllKeys(n)[j] = v})

Descendants(n) == UNION {Nodes(n.children[j]) : j \in 1..Len(n.children)}

RECURSIVE LeafDepths(_)

LeafDepths(n) ==
  IF n.leaf \/ n.children = <<>> THEN {0}
  ELSE {d + 1 : d \in UNION {LeafDepths(n.children[j]) : j \in 1..Len(n.children)}}

HasDuplicate(s) == \E j \in 1..(Len(s) - 1) : s[j] = s[j + 1]

\* the tree as an observer sees it now
Seq_now == to_vec(root)

\* ============================================================== the claims

\* C1: after inserts only, to_sequence() is exactly the inserted values as a
\* multiset in ascending order (length = number of inserts, duplicates kept).
C1_InsertedMultisetAscending ==
  nDel = 0 => /\ ~aborted
              /\ ~Seq_now.panic
              /\ Seq_now.seq = ins
              /\ Len(Seq_now.seq) = Len(ins)

C1_Witness ==
  /\ last.op = "to_vec" /\ ~aborted /\ nDel = 0
  /\ Len(ins) >= 6 /\ HasDuplicate(ins)
  /\ ~root.leaf /\ Len(root.children) >= 3
  /\ last.seq = ins

\* C2: on a tree built by inserts only whose root is internal and that stores
\* v, delete(v) returns true and to_sequence() afterwards is the sequence
\* before with exactly one occurrence of v removed.
C2_FirstDeleteRemovesOne ==
  (/\ last.op = "delete" /\ nDel = 1
   /\ ~last.pre.leaf
   /\ Occ(last.pre, last.v) >= 1)
  => /\ ~aborted
     /\ last.ret
     /\ ~Seq_now.panic
     /\ Seq_now.seq = RemoveOne(to_vec(last.pre).seq, last.v)

\* C3: contains, delete and to_sequence never reach a fatal abort.
C3_ReadAndDeleteTotal ==
  last.op \in {"contains", "delete", "to_vec"} => ~aborted

\* C4: after any sequence of inserts and deletes every non-root node stores
\* between t-1 and 2t-1 keys, every internal node has keys+1 children and all
\* leaves are at the same depth.
C4_Balanced ==
  ~aborted =>
    /\ \A m \in Descendants(root) : Len(m.keys) >= t - 1 /\ Len(m.keys) <= 2 * t - 1
    /\ \A m \in Nodes(root) : ~m.leaf => Len(m.children) = Len(m.keys) + 1
    /\ Cardinality(LeafDepths(root)) = 1

\* C5: delete(v) on a tree holding exactly one v returns true and a
\* contains(v) issued right after returns false.
C5_DeleteSingleThenAbsent ==
  (last.op = "delete" /\ Occ(last.pre, last.v) = 1)
  => /\ ~aborted
     /\ last.ret
     /\ ~contains(root, last.v).panic
     /\ ~contains(root, last.v).ret

\* C6: delete(v) on a tree holding no v returns false and leaves
\* to_sequence() as it was.
C6_DeleteAbsentNoEffect ==
  (last.op = "delete" /\ Occ(last.pre, last.v) = 0 /\ ~to_vec(last.pre).panic)
  => /\ ~aborted
     /\ ~last.ret
     /\ ~Seq_now.panic
     /\ Seq_now.seq = to_vec(last.pre).seq

\* C7: once insert(v) has completed, contains(v) is true and stays true over
\* later inserts and deletes of other keys until a delete(v) returns true.
C7_HeldKeysFound ==
  ~aborted => \A v \in held : ~contains(root, v).panic /\ contains(root, v).ret

\* C8: after every insert of an insert-only run to_sequence() is
\* non-decreasing.
C8_SortedAfterInsert ==
  (last.op = "insert" /\ nDel = 0)
  => ~aborted /\ ~Seq_now.panic /\ IsSorted(Seq_now.seq)

C8_Witness ==
  /\ last.op = "insert" /\ nDel = 0 /\ ~aborted
  /\ ~root.leaf /\ Len(root.children) >= 3
  /\ last.v < ins[Len(ins)]
  /\ HasDuplicate(ins)
  /\ IsSorted(Seq_now.seq)

\* C9: after inserts only, contains(v) is true exactly for the inserted
\* values, whether v sits in a leaf or is a key of an internal node.
C9_ContainsIffInserted ==
  nDel = 0 => \A v \in Keys :
                /\ ~contains(root, v).panic
                /\ contains(root, v).ret = (v \in Range(ins))

C9_Witness ==
  /\ last.op = "contains" /\ last.ret /\ nDel = 0 /\ ~aborted
  /\ ~root.leaf
  /\ last.v \in Range(root.keys)
  /\ \A m \in Descendants(root) : last.v \notin Range(m.keys)
  /\ \E w \in Range(ins) : w \notin Range(root.keys) /\ contains(root, w).ret

\* C10: after every completed public operation, key i of every internal node
\* is greater than every key below children[i] and less than every key below
\* children[i+1], duplicates included.
C10_SearchTreeStrict ==
  ~aborted =>
    \A m \in Nodes(root) : ~m.leaf =>
      \A i \in 0..(Len(m.keys) - 1) :
        /\ i < Len(m.children) =>
             \A k \in Range(AllKeys(At(m.children, i))) : k < At(m.keys, i)
        /\ i + 1 < Len(m.children) =>
             \A k \in Range(AllKeys(At(m.children, i + 1))) : At(m.keys, i) < k

\* the number of levels below n, read from the child vectors
Height(n) == CHOOSE d \in LeafDepths(n) : \A e \in LeafDepths(n) : e <= d

\* C11: after every completed insert or delete, the count field of every node
\* equals the number of keys the node stores.
C11_CountIsKeyLength ==
  ~aborted => \A m \in Nodes(root) : m.count = Len(m.keys)

\* C12: after every completed public operation the keys of each single node
\* are ascending and no node holds the same value twice.
C12_NodeKeysStrictlyAscending ==
  ~aborted =>
    \A m \in Nodes(root) :
      \A j \in 1..(Len(m.keys) - 1) : m.keys[j] < m.keys[j + 1]

\* C13: an insert raises the height by exactly one if and only if the root
\* holds 2t-1 keys when the call starts, every other insert keeps the height,
\* and no delete changes the height.
C13_HeightOnlyByFullRootInsert ==
  ~aborted =>
    /\ last.op = "insert" =>
         Height(root) = Height(last.pre)
                        + (IF Len(last.pre.keys) = 2 * t - 1 THEN 1 ELSE 0)
    /\ last.op = "delete" => Height(root) = Height(last.pre)

\* C14: insert never reaches a fatal abort, whatever inserts and deletes came
\* before.
C14_InsertNeverAborts ==
  last.op = "insert" => ~aborted

\* the new root BTree::insert builds around a full root before splitting it
Wrapped(r) == [leaf |-> FALSE, count |-> 0, keys |-> <<>>, children |-> <<r>>]

\* the pairs <<parent, i>> of the current tree that meet the precondition of
\* split: the parent is not full and children[i] holds 2t-1 keys
SplitSites ==
  {<<m, i>> : m \in {x \in Nodes(root) : ~x.leaf /\ Len(x.keys) < 2 * t - 1},
              i \in 0..(2 * t - 1)}
  \cup {<<Wrapped(root), 0>>}

SplitContract(p, i) ==
  (i < Len(p.children) /\ Len(At(p.children, i).keys) = 2 * t - 1) =>
    LET c == At(p.children, i)
        s == split(p, i)
    IN /\ ~s.panic
       /\ Len(s.node.children) = Len(p.children) + 1
       /\ At(s.node.children, i).keys = SubSeq(c.keys, 1, t - 1)
       /\ At(s.node.children, i + 1).keys = SubSeq(c.keys, t + 1, 2 * t - 1)
       /\ At(s.node.children, i).leaf = c.leaf
       /\ At(s.node.children, i + 1).leaf = c.leaf
       /\ ~c.leaf =>
            /\ At(s.node.children, i).children = SubSeq(c.children, 1, t)
            /\ At(s.node.children, i + 1).children = SubSeq(c.children, t + 1, 2 * t)
            /\ Len(At(s.node.children, i + 1).children) = t
       /\ At(s.node.keys, i) = c.keys[t]
       /\ Len(s.node.keys) = Len(p.keys) + 1
       /\ s.node.count = p.count + 1
       /\ ~to_vec(s.node).panic
       /\ to_vec(s.node).seq = to_vec(p).seq

\* C15: split(i) on a non-full parent whose children[i] holds 2t-1 keys keeps
\* the lowest t-1 keys in children[i], puts the highest t-1 keys (and the
\* highest t children of an internal child) into a new children[i+1], moves
\* the median to parent position i, raises the parent's count by one and
\* keeps the in-order sequence of the parent's subtree.
C15_SplitContract ==
  \A site \in SplitSites : SplitContract(site[1], site[2])

C15_Witness ==
  /\ last.op = "insert" /\ ~aborted
  /\ ~last.pre.leaf /\ Len(last.pre.keys) = 2 * t - 1
  /\ Height(root) = 2
  /\ Len(At(root.children, 1).children) = t
  /\ Len(root.keys) = 1

\* C16: the panic!("Unable to merge") of merge is never reached by any
\* sequence of insert and delete calls.
C16_UnableToMergeUnreached ==
  ~last.unable

\* a delete whose merge joined two children of the root and returned
C16_Witness ==
  /\ last.op = "delete" /\ ~aborted /\ ~last.unable
  /\ ~last.pre.leaf
  /\ Len(root.children) = Len(last.pre.children) - 1

MinOf(q) == CHOOSE k \in Range(q) : \A x \in Range(q) : k <= x

\* the position at which Node::delete finds last.v among the keys of the old
\* root, or -1 when the old root is a leaf or last.v is not one of its keys
FoundAt ==
  IF last.pre.leaf THEN -1
  ELSE LET i == delete_scan(last.pre, last.v, 0) IN
    IF i # -1 /\ i < last.pre.count /\ i < Len(last.pre.keys)
       /\ At(last.pre.keys, i) = last.v /\ i + 1 < Len(last.pre.children)
      THEN i ELSE -1

\* C17: when delete(v) finds v as the key at position i of an internal node,
\* that key is replaced by the minimum key of the whole subtree of
\* children[i+1] (the in-order successor), also when that child is internal.
\* Stated for the first delete on a tree built by inserts, at the root.
C17_ReplacedBySubtreeMinimum ==
  (last.op = "delete" /\ ~aborted /\ nDel = 1 /\ FoundAt # -1) =>
    /\ FoundAt < Len(root.keys)
    /\ At(root.keys, FoundAt) = MinOf(AllKeys(At(last.pre.children, FoundAt + 1)))

\* the child index into which Node::delete descends from the old root when
\* last.v is none of the old root's keys (lines 230-236), or -1
DescentAt ==
  IF last.pre.leaf THEN -1
  ELSE LET i == delete_scan(last.pre, last.v, 0) IN
    IF i = -1 THEN -1
    ELSE IF i < last.pre.count /\ At(last.pre.keys, i) = last.v THEN -1
    ELSE IF i >= Len(last.pre.children) THEN -1
    ELSE i

\* the first delete on a tree built by inserts descends from the root into an
\* underfull leaf children[i], i >= 1, that stores the value
UnderfullLeafCase ==
  /\ last.op = "delete" /\ nDel = 1
  /\ DescentAt >= 1
  /\ At(last.pre.children, DescentAt).leaf
  /\ Len(At(last.pre.children, DescentAt).keys) < t
  /\ last.v \in Range(At(last.pre.children, DescentAt).keys)

\* C18: borrow from the left sibling: when the target leaf children[i]
\* (i >= 1, the last child included) holds fewer than t keys and
\* children[i-1] holds at least t, the left sibling's maximum replaces the
\* parent key at position i-1, the old separator enters the front of the
\* target, the value leaves the target, and the in-order sequence loses
\* exactly that value and stays sorted.
C18_BorrowFromLeft ==
  (/\ UnderfullLeafCase
   /\ Len(At(last.pre.children, DescentAt - 1).keys) >= t)
  => LET i == DescentAt
         left == At(last.pre.children, i - 1)
         target == At(last.pre.children, i)
     IN /\ ~aborted
        /\ last.ret
        /\ At(root.keys, i - 1) = left.keys[Len(left.keys)]
        /\ At(root.children, i - 1).keys = SubSeq(left.keys, 1, Len(left.keys) - 1)
        /\ At(root.children, i).keys =
             <<At(last.pre.keys, i - 1)>> \o RemoveOne(target.keys, last.v)
        /\ ~Seq_now.panic
        /\ Seq_now.seq = RemoveOne(to_vec(last.pre).seq, last.v)
        /\ IsSorted(Seq_now.seq)

\* C19: merge in delete_from_leaf: when neither sibling of the underfull
\* target leaf can donate, the target, one adjacent sibling and the parent
\* key between them become one node, the parent loses that key and one child
\* slot (it keeps keys + 1 children and no key is stored twice), and the
\* value is removed from the merged node.
C19_MergeInDeleteFromLeaf ==
  (/\ UnderfullLeafCase
   /\ Len(At(last.pre.children, DescentAt - 1).keys) < t
   /\ DescentAt + 1 < Len(last.pre.children) =>
        Len(At(last.pre.children, DescentAt + 1).keys) < t)
  => /\ ~aborted
     /\ last.ret
     /\ Len(root.keys) = Len(last.pre.keys) - 1
     /\ Len(root.children) = Len(last.pre.children) - 1
     /\ Len(root.children) = Len(root.keys) + 1
     /\ Len(AllKeys(root)) = Len(AllKeys(last.pre)) - 1
     /\ ~Seq_now.panic
     /\ Seq_now.seq = RemoveOne(to_vec(last.pre).seq, last.v)

====
